---- MODULE Spec2Model ----
(***************************************************************************)
(* Risk-scoring resilience pipeline of the payment gateway proxy:          *)
(* CircuitBreaker (utils/circuit-breaker), RetryService (utils/retry),     *)
(* LLMService.assessTransactionRisk and PaymentService.processTransaction. *)
(*                                                                         *)
(* Execution model: Node.js, single-threaded and cooperative.  Every       *)
(* action below is one synchronous run of code between two suspension      *)
(* points (await of the remote call, of a cache operation, of a retry      *)
(* delay).  Time is a discrete clock `now`; a synchronous run reads one    *)
(* clock value.                                                            *)
(***************************************************************************)
EXTENDS Integers, Sequences, FiniteSets, TLC

\* ---------------------------------------------------------------- bounds
\* Concurrent callers of CircuitBreaker.execute in SpecCB.
NumCallers == 2
\* execute() calls each caller makes in SpecCB.
MaxCallsPerCaller == 2
\* Last value of the discrete clock.
MaxTime == 2
\* Largest configured failureThreshold explored.
MaxThreshold == 2
\* options.resetTimeout, in clock ticks.
ResetTimeout == 1

\* An optional Date field that was never assigned (undefined).
NoDate == -1

Callers == 1..NumCallers

\* Values a generic operation may resolve with / the value a configured
\* fallbackFunction returns / errors an operation may reject with.
OpValues == {"v1", "v2"}
FallbackValue == "fallbackValue"
OpErrors == {"opError"}
ServiceUnavailable == "Circuit breaker is OPEN - service unavailable"

VARIABLES
    cb,         \* the CircuitBreaker instance: state, failureCount, successCount, lastFailureTime, nextAttempt
    options,    \* its CircuitBreakerOptions: failureThreshold, resetTimeout, fallbackFunction (configured or not)
    now,        \* the clock (new Date() / Date.now())
    call,       \* SpecCB: per caller, its position in execute(), the number of calls made, the result of the last call
    opRet,      \* SpecCB: per caller, what the operation of the current call resolved / rejected with
    opCalls,    \* number of times an operation has been invoked through the breaker
    streak,     \* consecutive failed execute() calls since the breaker was CLOSED with failureCount 0 (NoStreak otherwise)
    config,     \* FraudRuleConfigService.config, the active rule configuration
    env,        \* process.env: RETRY_MAX_ATTEMPTS as parsed (maxAttempts), LLM_DISABLED === 'true' (llmDisabled)
    cache,      \* the risk_assessment:<id> entries of the Redis cache
    task,       \* Spec: per request-handling task, its position in processTransaction and what it holds
    last,       \* Spec: the record of the processTransaction call that returned last (pc "idle": none yet)
    redisUp,    \* Spec: whether the Redis client answers (FALSE: its get / setEx reject)
    fn          \* SpecRules: the last call made on the rule configuration service, with its result

breakerVars == <<cb, options, now, opCalls, streak>>
callerVars == <<call, opRet>>
pipelineVars == <<config, env, cache, task, last>>
vars == <<cb, options, now, call, opRet, opCalls, streak, config, env, cache, task, last, redisUp, fn>>

NoStreak == 0 - 1

\* ------------------------------------------------------- CircuitBreaker
\* Field initialisers of the class.
NewCircuitBreaker == [state |-> "CLOSED", failureCount |-> 0, successCount |-> 0, lastFailureTime |-> NoDate, nextAttempt |-> NoDate]

\* shouldAttemptReset(): nextAttempt ? new Date() >= nextAttempt : false
shouldAttemptReset(b, t) == IF b.nextAttempt # NoDate THEN t >= b.nextAttempt ELSE FALSE

onSuccess_KeepFailures(b) == [b EXCEPT !.successCount = @ + 1, !.state = IF @ = "HALF_OPEN" THEN "CLOSED" ELSE @]

\* onSuccess(): failureCount = 0; successCount++; HALF_OPEN -> CLOSED
onSuccess(b) == [b EXCEPT !.failureCount = 0, !.successCount = @ + 1, !.state = IF @ = "HALF_OPEN" THEN "CLOSED" ELSE @]

onFailure_NoCount(b, opts, t) == [b EXCEPT !.lastFailureTime = t]

onFailure_OffByOne(b, opts, t) == IF b.failureCount + 1 > opts.failureThreshold THEN [b EXCEPT !.failureCount = @ + 1, !.lastFailureTime = t, !.state = "OPEN", !.nextAttempt = t + opts.resetTimeout] ELSE [b EXCEPT !.failureCount = @ + 1, !.lastFailureTime = t]

\* onFailure(): failureCount++; lastFailureTime = now; at the threshold -> OPEN, nextAttempt = now + resetTimeout
onFailure(b, opts, t) == IF b.failureCount + 1 >= opts.failureThreshold THEN [b EXCEPT !.failureCount = @ + 1, !.lastFailureTime = t, !.state = "OPEN", !.nextAttempt = t + opts.resetTimeout] ELSE [b EXCEPT !.failureCount = @ + 1, !.lastFailureTime = t]

\* callFallback(): the configured fallbackFunction's value, or throws.
callFallback(opts) == IF opts.fallbackFunction THEN [kind |-> "ok", value |-> FallbackValue] ELSE [kind |-> "err", error |-> ServiceUnavailable]

shortCircuits_Never(b, t) == FALSE

\* execute(), lines 123-130: the call is short-circuited (the fallback is used).
shortCircuits(b, t) == b.state = "OPEN" /\ ~shouldAttemptReset(b, t)

executeEnter_CountsRefusal(b, t) == IF b.state = "OPEN" THEN (IF shouldAttemptReset(b, t) THEN [b EXCEPT !.state = "HALF_OPEN"] ELSE [b EXCEPT !.failureCount = @ + 1, !.lastFailureTime = t]) ELSE b

executeEnter_NoProbeState(b, t) == b

\* execute(), lines 123-126: the breaker after the entry check of a call that goes on to the operation.
executeEnter(b, t) == IF b.state = "OPEN" /\ shouldAttemptReset(b, t) THEN [b EXCEPT !.state = "HALF_OPEN"] ELSE b

\* getState() and getStats(): what they return.
getState(b) == b.state
getStats(b) == [state |-> b.state, failureCount |-> b.failureCount, successCount |-> b.successCount, lastFailureTime |-> b.lastFailureTime]

\* execute(), lines 133-135: what execute returns when the operation resolved with v.
executeReturn(v) == [kind |-> "ok", value |-> v]

\* execute(), lines 136-138: what execute throws when the operation rejected with e.
executeThrow(e) == [kind |-> "err", error |-> e]

NoResult == [kind |-> "none"]

\* No call has been made on the rule configuration service yet.
NoCall == [op |-> "none"]

\* ------------------------------------------------- JavaScript values
\* Risk scores and rule weights are counted in hundredths (0.3 is 30).
\* The two non-numbers a score may be: a missing property, and NaN.
UndefinedNumber == -9998
NaN == -9999
\* A missing string property.
Undefined == "undefined"

IsNumber(x) == x # UndefinedNumber /\ x # NaN

MathMax_Sum(a, b) == IF IsNumber(a) /\ IsNumber(b) THEN a + b ELSE NaN

\* Math.max(a, b): NaN as soon as one argument is not a number.
MathMax(a, b) == IF IsNumber(a) /\ IsNumber(b) THEN (IF a >= b THEN a ELSE b) ELSE NaN

\* Math.min(a, b) on numbers.
MathMin(a, b) == IF a <= b THEN a ELSE b

jsGE_Strict(a, b) == IsNumber(a) /\ a > b

\* a >= b and a <= b of JavaScript: false when a is not a number.
jsGE(a, b) == IsNumber(a) /\ a >= b
jsLE(a, b) == IsNumber(a) /\ a <= b

\* String(x).includes(v), strings being sequences of tokens.
includes(x, v) == \E i \in 0..(Len(x) - Len(v)) : SubSeq(x, i + 1, i + Len(v)) = v

\* ------------------------------------------- FraudRuleConfigService
\* getDefaultConfig()
getDefaultConfig == [
    rules |-> << [name |-> "high_amount_rule", enabled |-> TRUE, weight |-> 30, action |-> "flag", conditions |-> << [field |-> "amount", operator |-> "gt", value |-> 100000] >>] >>,
    providers |-> << [name |-> "paypal", priority |-> 1, riskTolerance |-> "medium", enabled |-> TRUE], [name |-> "stripe", priority |-> 2, riskTolerance |-> "low", enabled |-> TRUE] >>,
    thresholds |-> [low |-> 30, medium |-> 60, high |-> 80, critical |-> 90]]

\* thresholds of a configuration file without a thresholds section.
NoThresholds == [undefined |-> TRUE]

\* A regular expression source that new RegExp() rejects.
InvalidPattern == << "[" >>

\* Contents config/fraud-rules.yml may have (the file is not part of the
\* sources): a rule set with a blocking rule, a flagging rule, a disabled
\* blocking rule and a review rule on the day of the week.
BlockingConfig == [
    rules |-> << [name |-> "suspicious_domain", enabled |-> TRUE, weight |-> 50, action |-> "block", conditions |-> << [field |-> "email", operator |-> "contains", value |-> << "tempmail" >>] >>],
                 [name |-> "high_amount", enabled |-> TRUE, weight |-> 40, action |-> "flag", conditions |-> << [field |-> "amount", operator |-> "gt", value |-> 100000] >>],
                 [name |-> "disabled_block", enabled |-> FALSE, weight |-> 100, action |-> "block", conditions |-> << [field |-> "amount", operator |-> "gt", value |-> 0] >>],
                 [name |-> "weekend_large", enabled |-> TRUE, weight |-> 30, action |-> "review", conditions |-> << [field |-> "timestamp", operator |-> "eq", value |-> "weekend"], [field |-> "amount", operator |-> "gt", value |-> 100000] >>] >>,
    providers |-> << [name |-> "square", priority |-> 3, riskTolerance |-> "high", enabled |-> TRUE], [name |-> "stripe", priority |-> 1, riskTolerance |-> "low", enabled |-> TRUE], [name |-> "adyen", priority |-> 2, riskTolerance |-> "high", enabled |-> FALSE], [name |-> "paypal", priority |-> 2, riskTolerance |-> "medium", enabled |-> TRUE] >>,
    thresholds |-> [low |-> 30, medium |-> 60, high |-> 80, critical |-> 90]]

\* A file whose regex rule does not compile, and that has no thresholds section.
BrokenConfig == [
    rules |-> << [name |-> "large_only", enabled |-> TRUE, weight |-> 20, action |-> "flag", conditions |-> << [field |-> "amount", operator |-> "gt", value |-> 100000], [field |-> "email", operator |-> "regex", value |-> InvalidPattern] >>] >>,
    providers |-> << [name |-> "paypal", priority |-> 1, riskTolerance |-> "medium", enabled |-> TRUE] >>,
    thresholds |-> NoThresholds]

\* What loadConfig() may leave in this.config: the parsed file, or the default.
Configs == {getDefaultConfig, BlockingConfig, BrokenConfig}

\* getFieldValue(): the synthetic timestamp field, or the transaction's own field.
getFieldValue(field, transaction, day) == IF field = "timestamp" THEN day ELSE transaction[field]

\* evaluateCondition(): "true", "false", or "throw" (new RegExp of an invalid source).
evaluateCondition(condition, transaction, day) ==
    LET fieldValue == getFieldValue(condition.field, transaction, day)
        b(x) == IF x THEN "true" ELSE "false"
    IN CASE condition.operator = "gt" -> b(fieldValue > condition.value)
         [] condition.operator = "lt" -> b(fieldValue < condition.value)
         [] condition.operator = "eq" -> b(fieldValue = condition.value)
         [] condition.operator = "contains" -> b(includes(fieldValue, condition.value))
         [] condition.operator = "regex" -> IF condition.value = InvalidPattern THEN "throw" ELSE b(includes(fieldValue, condition.value))
         [] OTHER -> "false"

\* rule.conditions.every(...): stops at the first condition that is false or throws.
RECURSIVE every(_, _, _, _)
every(conditions, i, transaction, day) ==
    IF i > Len(conditions) THEN "true"
    ELSE LET r == evaluateCondition(conditions[i], transaction, day)
         IN IF r = "true" THEN every(conditions, i + 1, transaction, day) ELSE r

getRules_All(cfg) == cfg.rules

\* getRules(): the enabled rules, in configuration order.
getRules(cfg) == SelectSeq(cfg.rules, LAMBDA rule : rule.enabled)

\* The loop of evaluateRiskFromRules() from rule i on.
RECURSIVE ruleLoop(_, _, _, _, _)
ruleLoop(rules, i, transaction, day, acc) ==
    IF i > Len(rules) THEN acc
    ELSE LET rule == rules[i]
             ruleMatches == every(rule.conditions, 1, transaction, day)
         IN IF ruleMatches = "throw" THEN [acc EXCEPT !.threw = TRUE]
            ELSE IF ruleMatches = "true"
                 THEN ruleLoop(rules, i + 1, transaction, day,
                               [acc EXCEPT !.totalScore = @ + rule.weight,
                                           !.factors = Append(@, rule.name),
                                           !.blockedRules = IF rule.action = "block" THEN Append(@, rule.name) ELSE @])
                 ELSE ruleLoop(rules, i + 1, transaction, day, acc)

\* evaluateRiskFromRules(): score = min(1.0, totalScore), factors, blockedRules; or it throws.
evaluateRiskFromRules(cfg, transaction, day) ==
    LET acc == ruleLoop(getRules(cfg), 1, transaction, day, [totalScore |-> 0, factors |-> << >>, blockedRules |-> << >>, threw |-> FALSE])
    IN IF acc.threw THEN [threw |-> TRUE, score |-> 0, factors |-> << >>, blockedRules |-> << >>]
       ELSE [threw |-> FALSE, score |-> MathMin(100, acc.totalScore), factors |-> acc.factors, blockedRules |-> acc.blockedRules]

\* Array.prototype.sort((a, b) => a.priority - b.priority): stable insertion.
RECURSIVE insertByPriority(_, _)
insertByPriority(sorted, x) ==
    IF sorted = << >> THEN << x >>
    ELSE IF sorted[Len(sorted)].priority <= x.priority THEN Append(sorted, x)
    ELSE Append(insertByPriority(SubSeq(sorted, 1, Len(sorted) - 1), x), sorted[Len(sorted)])

RECURSIVE sortByPriority(_)
sortByPriority(s) == IF s = << >> THEN << >> ELSE insertByPriority(sortByPriority(SubSeq(s, 1, Len(s) - 1)), s[Len(s)])

getProviders_All(cfg) == sortByPriority(cfg.providers)

\* getProviders(): the enabled providers by ascending priority.
getProviders(cfg) == sortByPriority(SelectSeq(cfg.providers, LAMBDA provider : provider.enabled))

\* getRiskToleranceThreshold()
getRiskToleranceThreshold(tolerance) == CASE tolerance = "low" -> 30 [] tolerance = "medium" -> 60 [] tolerance = "high" -> 80 [] OTHER -> 60

\* The loop of selectProvider() from provider i on, then the catch-all.
RECURSIVE providerLoop(_, _, _)
providerLoop(providers, i, riskScore) ==
    IF i > Len(providers) THEN (IF Len(providers) > 0 THEN providers[Len(providers)].name ELSE "paypal")
    ELSE IF jsLE(riskScore, getRiskToleranceThreshold(providers[i].riskTolerance)) THEN providers[i].name
    ELSE providerLoop(providers, i + 1, riskScore)

\* selectProvider()
selectProvider(cfg, riskScore) == providerLoop(getProviders(cfg), 1, riskScore)

\* getThresholds()
getThresholds(cfg) == cfg.thresholds

\* determineTransactionStatus(): "throw" when the configuration has no thresholds.
determineTransactionStatus(cfg, riskScore) ==
    LET thresholds == getThresholds(cfg)
    IN IF thresholds = NoThresholds THEN "throw"
       ELSE IF jsGE(riskScore, thresholds.critical) THEN "failed"
       ELSE IF jsGE(riskScore, thresholds.high) THEN "pending"
       ELSE IF jsGE(riskScore, thresholds.medium) THEN "processing"
       ELSE "success"

\* ------------------------------------------------------- RetryService
\* The value of lastError before any attempt failed (line 55).
NoError == [message |-> Undefined, attempt |-> 0]

\* for (attempt = 1; attempt <= opts.maxAttempts; attempt++): the loop condition.
retryLoopCondition(attempt, maxAttempts) == attempt <= maxAttempts

retryCatch_KeepFirst(lastError, error) == IF lastError = NoError THEN error ELSE lastError

\* catch (error) { lastError = error }: line 67.
retryCatch(lastError, error) == error

\* if (attempt === opts.maxAttempts) break: line 74.
retryBreaks(attempt, maxAttempts) == attempt = maxAttempts

\* throw lastError: line 87.
retryThrow(lastError) == [kind |-> "err", error |-> lastError]

retryReturn_Nothing(result) == [kind |-> "ok", value |-> [null |-> TRUE]]

\* return result: line 65.
retryReturn(result) == [kind |-> "ok", value |-> result]

\* ---------------------------------------------------------- LLMService
FallbackExplanation == "Risk assessment service temporarily unavailable. Using rule-based fallback assessment."

\* getFallbackResponse()
getFallbackResponse(transaction) == [transactionId |-> transaction.id, riskScore |-> 50, riskLevel |-> "MEDIUM", explanation |-> FallbackExplanation]

\* What choices[0].message.content may hold: text that is not JSON, or a JSON
\* object whose properties may be out of range or missing.
Contents == {
    [json |-> FALSE, riskScore |-> UndefinedNumber, riskLevel |-> Undefined, explanation |-> Undefined],
    [json |-> TRUE, riskScore |-> 20, riskLevel |-> "LOW", explanation |-> "model explanation"],
    [json |-> TRUE, riskScore |-> 70, riskLevel |-> "HIGH", explanation |-> "model explanation"],
    [json |-> TRUE, riskScore |-> UndefinedNumber, riskLevel |-> "LOW", explanation |-> "model explanation"],
    [json |-> TRUE, riskScore |-> 150, riskLevel |-> "CRITICAL", explanation |-> Undefined] }

\* parseLMStudioResponse(): the parsed properties under the transaction's id, or the fallback when JSON.parse throws.
parseLMStudioResponse(content, transaction) ==
    IF content.json
    THEN [transactionId |-> transaction.id, riskScore |-> content.riskScore, riskLevel |-> content.riskLevel, explanation |-> content.explanation]
    ELSE getFallbackResponse(transaction)

\* Outcomes of client.post('/chat/completions'): a response with content, a
\* response whose choices list is empty, a refused connection, another failure
\* (timeout, HTTP error).
Responses == [kind : {"content"}, content : Contents] \cup {[kind |-> "noChoices"], [kind |-> "ECONNREFUSED"], [kind |-> "failed"]}

NotRunning == "LM Studio server is not running. Please start LM Studio and load a model."

\* callLMStudio(): the parsed assessment, or the error it throws.
callLMStudio(response, transaction) ==
    CASE response.kind = "content" -> [kind |-> "ok", value |-> parseLMStudioResponse(response.content, transaction)]
      [] response.kind = "noChoices" -> [kind |-> "err", error |-> "TypeError: Cannot read properties of undefined"]
      [] response.kind = "ECONNREFUSED" -> [kind |-> "err", error |-> NotRunning]
      [] OTHER -> [kind |-> "err", error |-> "request failed"]

\* assessTransactionRisk(), lines 77-90: the catch block.  Reading .message of
\* an undefined error throws a TypeError out of the function.
assessCatch(error, transaction) ==
    IF error = NoError THEN [kind |-> "err", error |-> "TypeError: Cannot read properties of undefined (reading 'message')"]
    ELSE [kind |-> "ok", value |-> getFallbackResponse(transaction)]

\* -------------------------------------------------------- CacheService
\* redis get of a key that is not set.
Null == [null |-> TRUE]

\* JSON.stringify(value) of an assessment: properties that are undefined are
\* left out of the text.
JSONstringify(value) ==
    [transactionId |-> value.transactionId, riskScore |-> value.riskScore, riskLevel |-> value.riskLevel, explanation |-> value.explanation,
     omitted |-> (IF value.riskScore = UndefinedNumber THEN {"riskScore"} ELSE {}) \cup (IF value.riskLevel = Undefined THEN {"riskLevel"} ELSE {}) \cup (IF value.explanation = Undefined THEN {"explanation"} ELSE {})]

\* JSON.parse(data): a property the text leaves out reads as undefined.
JSONparse(data) ==
    [transactionId |-> data.transactionId,
     riskScore |-> IF "riskScore" \in data.omitted THEN UndefinedNumber ELSE data.riskScore,
     riskLevel |-> IF "riskLevel" \in data.omitted THEN Undefined ELSE data.riskLevel,
     explanation |-> IF "explanation" \in data.omitted THEN Undefined ELSE data.explanation]

cacheServiceGet_Throws(up, data) == IF up THEN [kind |-> "ok", value |-> IF data = Null THEN Null ELSE JSONparse(data)] ELSE [kind |-> "err", error |-> "redis get failed"]

\* CacheService.get(): the parsed entry, null when there is none, and null
\* when Redis rejects (the catch block).
cacheServiceGet(up, data) == IF up THEN [kind |-> "ok", value |-> IF data = Null THEN Null ELSE JSONparse(data)] ELSE [kind |-> "ok", value |-> Null]

\* CacheService.set(): true once the text is stored, false (and nothing
\* stored) when Redis rejects.
cacheServiceSet(up, entries, id, value) == IF up THEN [kind |-> "ok", value |-> TRUE, cache |-> [entries EXCEPT ![id] = JSONstringify(value)]] ELSE [kind |-> "ok", value |-> FALSE, cache |-> entries]

cacheHit_Never(cachedResult) == FALSE

\* assessTransactionRisk(), line 57: if (cachedResult)
cacheHit(cachedResult) == cachedResult # Null

\* ------------------------------------------------------ PaymentService
BlockedExplanation == "Transaction blocked by fraud rules"
RulesExplanation == "Transaction assessed using configurable fraud rules"
SystemErrorExplanation == "Transaction processing failed due to system error"

blockedTransaction_Blocked(transaction) == [transaction EXCEPT !.status = "blocked", !.riskScore = 100, !.explanation = BlockedExplanation, !.provider = "blocked"]

\* processTransaction(), lines 247-260: the transaction returned for a blocked one.
blockedTransaction(transaction) == [transaction EXCEPT !.status = "failed", !.riskScore = 100, !.explanation = BlockedExplanation, !.provider = "blocked"]

\* processTransaction(), lines 305-318: the outer catch block.
errorTransaction(transaction) == [transaction EXCEPT !.status = "failed", !.riskScore = 100, !.explanation = SystemErrorExplanation, !.provider = "error"]

combine_AssumeFallback(fraudAssessment, assessed) ==
    IF assessed.kind = "ok" THEN [finalRiskScore |-> MathMax(fraudAssessment.score, assessed.value.riskScore), explanation |-> assessed.value.explanation]
    ELSE [finalRiskScore |-> MathMax(fraudAssessment.score, 50), explanation |-> FallbackExplanation]

\* processTransaction(), lines 263-276: [finalRiskScore, explanation] after the scorer returned or threw.
combine(fraudAssessment, assessed) ==
    IF assessed.kind = "ok" THEN [finalRiskScore |-> MathMax(fraudAssessment.score, assessed.value.riskScore), explanation |-> assessed.value.explanation]
    ELSE [finalRiskScore |-> fraudAssessment.score, explanation |-> RulesExplanation]

\* processTransaction(), lines 262-304 (and 305-318 when determineTransactionStatus throws).
scoredTransaction(cfg, transaction, fraudAssessment, assessed) ==
    LET c == combine(fraudAssessment, assessed)
        selectedProvider == selectProvider(cfg, c.finalRiskScore)
        status == determineTransactionStatus(cfg, c.finalRiskScore)
    IN IF status = "throw" THEN errorTransaction(transaction)
       ELSE [transaction EXCEPT !.riskScore = c.finalRiskScore, !.explanation = c.explanation, !.provider = selectedProvider, !.status = status]

\* ------------------------------------------------ pipeline state
\* Request-handling tasks running processTransaction concurrently, one
\* transaction each.
NumTasks == 2
\* Largest configured RETRY_MAX_ATTEMPTS explored (0 is explored too).
MaxRetryAttempts == 2

Tasks == 1..NumTasks
TxnIds == {"txn_a", "txn_b"}
\* Payment requests: an ordinary one, and a large one from a disposable address.
Requests == { [id |-> "txn_a", amount |-> 1000, email |-> << "donor", "@", "example", ".com" >>],
              [id |-> "txn_b", amount |-> 200000, email |-> << "x", "@", "tempmail", ".com" >>] }
Days == {"weekday", "weekend"}

newTransaction_Routed(id, amount, email) == [id |-> id, amount |-> amount, email |-> email, status |-> "success", riskScore |-> 0, explanation |-> Undefined, provider |-> "paypal"]

\* The transaction the controller builds (status PENDING, no result fields).
newTransaction(id, amount, email) == [id |-> id, amount |-> amount, email |-> email, status |-> "pending", riskScore |-> UndefinedNumber, explanation |-> Undefined, provider |-> Undefined]

NoFraudAssessment == [threw |-> FALSE, score |-> 0, factors |-> << >>, blockedRules |-> << >>]

\* A task before its transaction.  attempt, lastError are the locals of
\* RetryService.execute; invocations, failures, lastRaised, lastResolved record
\* how often the remote operation was invoked, how often it threw, the last
\* error it threw and the last value it returned; retried, assessed are the outcomes of RetryService.execute and
\* assessTransactionRisk; scorer, lookedUp, executed record that
\* assessTransactionRisk, cacheService.get, circuitBreaker.execute were called;
\* path names the return statement processTransaction left by.
IdleTask == [pc |-> "idle", transaction |-> newTransaction("txn_a", 1000, << >>), fraudAssessment |-> NoFraudAssessment, assessment |-> Null,
             attempt |-> 0, lastError |-> NoError, invocations |-> 0, failures |-> 0, lastRaised |-> NoError, lastResolved |-> Null,
             retried |-> NoResult, assessed |-> NoResult, scorer |-> FALSE, lookedUp |-> FALSE, executed |-> FALSE, path |-> "none"]

\* A task whose processTransaction call has returned (its record is in `last`).
DoneTask == [IdleTask EXCEPT !.pc = "done"]

\* The streak of consecutive failures restarts when a success leaves the
\* breaker CLOSED with failureCount 0, and grows with every failure.
streakAfterSuccess(b) == IF b.state = "CLOSED" /\ b.failureCount = 0 THEN 0 ELSE NoStreak
streakAfterFailure(n) == IF n = NoStreak THEN NoStreak ELSE n + 1

\* ------------------------------------------- SpecCB: generic callers
InitOptions == [failureThreshold : 1..MaxThreshold, resetTimeout : {ResetTimeout}, fallbackFunction : BOOLEAN]

InitCB ==
    /\ cb = NewCircuitBreaker
    /\ options \in InitOptions
    /\ now = 0
    /\ call = [p \in Callers |-> [pc |-> "idle", n |-> 0, result |-> NoResult]]
    /\ opRet = [p \in Callers |-> NoResult]
    /\ opCalls = 0
    /\ streak = 0
    /\ config = getDefaultConfig
    /\ env = [maxAttempts |-> 3, llmDisabled |-> FALSE]
    /\ cache = [id \in TxnIds |-> Null]
    /\ task = [p \in Tasks |-> IdleTask]
    /\ last = IdleTask
    /\ redisUp = TRUE
    /\ fn = NoCall

\* A caller calls execute(operation) while the breaker short-circuits: lines 123-129, 168-173.
ExecuteShortCircuit(p) ==
    /\ call[p].pc = "idle"
    /\ call[p].n < MaxCallsPerCaller
    /\ shortCircuits(cb, now)
    /\ cb' = executeEnter(cb, now)
    /\ call' = [call EXCEPT ![p] = [pc |-> "idle", n |-> @.n + 1, result |-> callFallback(options)]]
    /\ opRet' = [opRet EXCEPT ![p] = NoResult]
    /\ UNCHANGED <<options, now, opCalls, streak, pipelineVars, fn, redisUp>>

\* A caller calls execute(operation) and the operation is invoked: lines 123-126, 133 up to the await.
ExecuteInvoke(p) ==
    /\ call[p].pc = "idle"
    /\ call[p].n < MaxCallsPerCaller
    /\ ~shortCircuits(cb, now)
    /\ cb' = executeEnter(cb, now)
    /\ call' = [call EXCEPT ![p] = [pc |-> "op", n |-> @.n + 1, result |-> NoResult]]
    /\ opRet' = [opRet EXCEPT ![p] = NoResult]
    /\ opCalls' = opCalls + 1
    /\ UNCHANGED <<options, now, streak, pipelineVars, fn, redisUp>>

\* The awaited operation resolves: lines 133-135, 146-154.
OperationResolves(p) ==
    /\ call[p].pc = "op"
    /\ \E v \in OpValues :
        /\ opRet' = [opRet EXCEPT ![p] = [kind |-> "ok", value |-> v]]
        /\ call' = [call EXCEPT ![p].pc = "idle", ![p].result = executeReturn(v)]
    /\ cb' = onSuccess(cb)
    /\ streak' = streakAfterSuccess(cb')
    /\ UNCHANGED <<options, now, opCalls, pipelineVars, fn, redisUp>>

\* The awaited operation rejects: lines 136-138, 156-166.
OperationRejects(p) ==
    /\ call[p].pc = "op"
    /\ \E e \in OpErrors :
        /\ opRet' = [opRet EXCEPT ![p] = [kind |-> "err", error |-> e]]
        /\ call' = [call EXCEPT ![p].pc = "idle", ![p].result = executeThrow(e)]
    /\ cb' = onFailure(cb, options, now)
    /\ streak' = streakAfterFailure(streak)
    /\ UNCHANGED <<options, now, opCalls, pipelineVars, fn, redisUp>>

\* The clock advances.
Tick ==
    /\ now < MaxTime
    /\ now' = now + 1
    /\ UNCHANGED <<cb, options, call, opRet, opCalls, streak, pipelineVars, fn, redisUp>>

NextCB ==
    \/ \E p \in Callers : ExecuteShortCircuit(p)
    \/ \E p \in Callers : ExecuteInvoke(p)
    \/ \E p \in Callers : OperationResolves(p)
    \/ \E p \in Callers : OperationRejects(p)
    \/ Tick

SpecCB == InitCB /\ [][NextCB]_vars

\* ------------------- SpecCBReaders: callers and readers of the breaker
\* getState() is called (fn holds what it returned).
GetState ==
    /\ fn' = [op |-> "getState", result |-> getState(cb)]
    /\ UNCHANGED <<breakerVars, callerVars, pipelineVars, redisUp>>

\* getStats() is called.
GetStats ==
    /\ fn' = [op |-> "getStats", result |-> getStats(cb)]
    /\ UNCHANGED <<breakerVars, callerVars, pipelineVars, redisUp>>

NextCBReaders ==
    \/ \E p \in Callers : ExecuteShortCircuit(p)
    \/ \E p \in Callers : ExecuteInvoke(p)
    \/ \E p \in Callers : OperationResolves(p)
    \/ \E p \in Callers : OperationRejects(p)
    \/ GetState
    \/ GetStats
    \/ Tick

SpecCBReaders == InitCB /\ [][NextCBReaders]_vars

\* ------------------------ SpecCBCrowd: one more concurrent caller
\* The callers of SpecCB and one more: three operations can be in flight at
\* once (one to open the breaker, one to succeed and one to fail afterwards).
CrowdCallers == 1..(NumCallers + 1)

InitCBCrowd ==
    /\ cb = NewCircuitBreaker
    /\ options \in InitOptions
    /\ now = 0
    /\ call = [p \in CrowdCallers |-> [pc |-> "idle", n |-> 0, result |-> NoResult]]
    /\ opRet = [p \in CrowdCallers |-> NoResult]
    /\ opCalls = 0
    /\ streak = 0
    /\ config = getDefaultConfig
    /\ env = [maxAttempts |-> 3, llmDisabled |-> FALSE]
    /\ cache = [id \in TxnIds |-> Null]
    /\ task = [p \in Tasks |-> IdleTask]
    /\ last = IdleTask
    /\ redisUp = TRUE
    /\ fn = NoCall

NextCBCrowd ==
    \/ \E p \in CrowdCallers : ExecuteShortCircuit(p)
    \/ \E p \in CrowdCallers : ExecuteInvoke(p)
    \/ \E p \in CrowdCallers : OperationResolves(p)
    \/ \E p \in CrowdCallers : OperationRejects(p)
    \/ Tick

SpecCBCrowd == InitCBCrowd /\ [][NextCBCrowd]_vars

\* --------------------- SpecCBRecovery: the breaker once the service is back
\* After its MaxCallsPerCaller calls of SpecCB a caller keeps calling
\* execute(), and the operations these later calls invoke all resolve.  The
\* two counters nothing in the class reads (successCount, only reported by
\* getStats(), and opCalls) are counted up to MaxCount.
MaxCount == NumCallers * MaxCallsPerCaller + 1
countedUp(n) == IF n < MaxCount THEN n + 1 ELSE n

\* A later execute() call while the breaker short-circuits: lines 123-129, 168-173.
LateShortCircuit(p) ==
    /\ call[p].pc = "idle"
    /\ call[p].n = MaxCallsPerCaller
    /\ shortCircuits(cb, now)
    /\ call' = [call EXCEPT ![p].result = callFallback(options)]
    /\ opRet' = [opRet EXCEPT ![p] = NoResult]
    /\ UNCHANGED <<cb, options, now, opCalls, streak, pipelineVars, fn, redisUp>>

\* A later execute() call invokes the operation: lines 123-126, 133 up to the await.
LateInvoke(p) ==
    /\ call[p].pc = "idle"
    /\ call[p].n = MaxCallsPerCaller
    /\ ~shortCircuits(cb, now)
    /\ cb' = executeEnter(cb, now)
    /\ call' = [call EXCEPT ![p].pc = "late", ![p].result = NoResult]
    /\ opRet' = [opRet EXCEPT ![p] = NoResult]
    /\ opCalls' = countedUp(opCalls)
    /\ UNCHANGED <<options, now, streak, pipelineVars, fn, redisUp>>

\* The awaited operation of a later call resolves: lines 133-135, 146-154.
LateResolves(p) ==
    /\ call[p].pc = "late"
    /\ \E v \in OpValues :
        /\ opRet' = [opRet EXCEPT ![p] = [kind |-> "ok", value |-> v]]
        /\ call' = [call EXCEPT ![p].pc = "idle", ![p].result = executeReturn(v)]
    /\ cb' = [onSuccess(cb) EXCEPT !.successCount = countedUp(cb.successCount)]
    /\ streak' = streakAfterSuccess(cb')
    /\ UNCHANGED <<options, now, opCalls, pipelineVars, fn, redisUp>>

\* The clock keeps advancing past MaxTime for as long as the open breaker
\* waits for its nextAttempt.
LateTick ==
    /\ now >= MaxTime
    /\ cb.nextAttempt # NoDate /\ now < cb.nextAttempt
    /\ now' = now + 1
    /\ UNCHANGED <<cb, options, call, opRet, opCalls, streak, pipelineVars, fn, redisUp>>

NextCBRecovery ==
    \/ \E p \in Callers : ExecuteShortCircuit(p)
    \/ \E p \in Callers : ExecuteInvoke(p)
    \/ \E p \in Callers : OperationResolves(p)
    \/ \E p \in Callers : OperationRejects(p)
    \/ \E p \in Callers : LateShortCircuit(p)
    \/ \E p \in Callers : LateInvoke(p)
    \/ \E p \in Callers : LateResolves(p)
    \/ Tick
    \/ LateTick

\* Time keeps advancing, every caller keeps calling execute(), and every
\* awaited operation settles.
FairnessCBRecovery ==
    /\ WF_vars(Tick \/ LateTick)
    /\ \A p \in Callers : WF_vars(ExecuteShortCircuit(p) \/ ExecuteInvoke(p))
    /\ \A p \in Callers : WF_vars(OperationResolves(p) \/ OperationRejects(p))
    /\ \A p \in Callers : WF_vars(LateShortCircuit(p) \/ LateInvoke(p))
    /\ \A p \in Callers : WF_vars(LateResolves(p))

SpecCBRecovery == InitCB /\ [][NextCBRecovery]_vars /\ FairnessCBRecovery

\* ---------------------------------- Spec: concurrent processTransaction
\* LLMService's constructor configures the breaker without a fallbackFunction;
\* the threshold and RETRY_MAX_ATTEMPTS come from the environment.
Init ==
    /\ cb = NewCircuitBreaker
    /\ options \in [failureThreshold : 1..MaxThreshold, resetTimeout : {ResetTimeout}, fallbackFunction : {FALSE}]
    /\ now = 0
    /\ call = [p \in Callers |-> [pc |-> "idle", n |-> 0, result |-> NoResult]]
    /\ opRet = [p \in Callers |-> NoResult]
    /\ opCalls = 0
    /\ streak = 0
    /\ config \in Configs
    /\ env \in [maxAttempts : 0..MaxRetryAttempts, llmDisabled : BOOLEAN]
    /\ cache = [id \in TxnIds |-> Null]
    /\ task = [p \in Tasks |-> IdleTask]
    /\ last = IdleTask
    /\ redisUp \in BOOLEAN
    /\ fn = NoCall

isBlocked_MoreThanOne(fraudAssessment) == Len(fraudAssessment.blockedRules) > 1

\* processTransaction(), line 247: fraudAssessment.blockedRules.length > 0
isBlocked(fraudAssessment) == Len(fraudAssessment.blockedRules) > 0

\* An error object: its message, and the retry attempt that raised it (0: not raised by an attempt).
Error(message, attempt) == [message |-> message, attempt |-> attempt]

\* The task once assessTransactionRisk has returned or thrown `assessed`:
\* processTransaction, lines 268-304 or its catch blocks.
returned(t, assessed) ==
    [t EXCEPT !.pc = "done", !.assessed = assessed,
              !.transaction = scoredTransaction(config, t.transaction, t.fraudAssessment, assessed),
              !.path = IF determineTransactionStatus(config, combine(t.fraudAssessment, assessed).finalRiskScore) = "throw" THEN "error"
                       ELSE IF assessed.kind = "ok" THEN "scored" ELSE "rulesOnly"]

\* processTransaction returns: the call's record becomes the last one returned.
Return(p, t) == task' = [task EXCEPT ![p] = DoneTask] /\ last' = t

\* A task calls processTransaction(transaction): lines 239-267, and
\* assessTransactionRisk, lines 46-56, up to the await of cacheService.get.
ProcessTransaction(p) ==
    /\ task[p].pc = "idle"
    /\ \E request \in Requests, day \in Days :
        LET transaction == newTransaction(request.id, request.amount, request.email)
            fraudAssessment == evaluateRiskFromRules(config, transaction, day)
            t == [IdleTask EXCEPT !.transaction = transaction, !.fraudAssessment = fraudAssessment]
        IN IF fraudAssessment.threw THEN Return(p, [t EXCEPT !.pc = "done", !.transaction = errorTransaction(transaction), !.path = "error"])
           ELSE IF isBlocked(fraudAssessment) THEN Return(p, [t EXCEPT !.pc = "done", !.transaction = blockedTransaction(transaction), !.path = "blocked"])
           ELSE IF env.llmDisabled THEN Return(p, returned([t EXCEPT !.scorer = TRUE], [kind |-> "ok", value |-> getFallbackResponse(transaction)]))
           ELSE /\ task' = [task EXCEPT ![p] = [t EXCEPT !.pc = "cacheGet", !.scorer = TRUE, !.lookedUp = TRUE]]
                /\ UNCHANGED last
    /\ UNCHANGED <<breakerVars, callerVars, config, env, cache, fn, redisUp>>

\* What the awaited cacheService.get of task p settles with: line 56.
cachedResult(p) == cacheServiceGet(redisUp, cache[task[p].transaction.id])

\* cacheService.get resolves with the cached assessment: lines 56-60 (were it
\* to reject, assessTransactionRisk would reject: the await is outside its try).
CacheHit(p) ==
    /\ task[p].pc = "cacheGet"
    /\ cachedResult(p).kind = "err" \/ cacheHit(cachedResult(p).value)
    /\ Return(p, returned(task[p], cachedResult(p)))
    /\ UNCHANGED <<breakerVars, callerVars, config, env, cache, fn, redisUp>>

\* cacheService.get resolves with null (no entry, or Redis failed) and the
\* breaker short-circuits: lines 62-63, 123-129, 168-173, 77-90.
CacheMissShortCircuit(p) ==
    /\ task[p].pc = "cacheGet"
    /\ cachedResult(p).kind = "ok" /\ ~cacheHit(cachedResult(p).value)
    /\ shortCircuits(cb, now)
    /\ LET r == callFallback(options)
           t == [task[p] EXCEPT !.executed = TRUE]
       IN IF r.kind = "ok" THEN task' = [task EXCEPT ![p] = [t EXCEPT !.pc = "cacheSet", !.assessment = r.value]] /\ UNCHANGED last
          ELSE Return(p, returned(t, assessCatch(Error(r.error, 0), t.transaction)))
    /\ UNCHANGED <<breakerVars, callerVars, config, env, cache, fn, redisUp>>

\* cacheService.get resolves with null and the breaker lets the call through:
\* lines 62-64, 123-126, 133, and RetryService.execute up to the await of the
\* first attempt (or, when the loop does not run at all, its throw of the
\* unassigned lastError, then lines 136-138 and 77-90).
CacheMissInvoke(p) ==
    /\ task[p].pc = "cacheGet"
    /\ cachedResult(p).kind = "ok" /\ ~cacheHit(cachedResult(p).value)
    /\ ~shortCircuits(cb, now)
    /\ opCalls' = opCalls + 1
    /\ IF retryLoopCondition(1, env.maxAttempts)
       THEN /\ task' = [task EXCEPT ![p] = [@ EXCEPT !.pc = "remote", !.executed = TRUE, !.attempt = 1, !.invocations = 1]]
            /\ cb' = executeEnter(cb, now)
            /\ UNCHANGED <<streak, last>>
       ELSE /\ Return(p, returned([task[p] EXCEPT !.executed = TRUE, !.retried = retryThrow(NoError)], assessCatch(NoError, task[p].transaction)))
            /\ cb' = onFailure(executeEnter(cb, now), options, now)
            /\ streak' = streakAfterFailure(streak)
    /\ UNCHANGED <<options, now, callerVars, config, env, cache, fn, redisUp>>

\* The awaited client.post settles.  callLMStudio returns an assessment:
\* retry lines 59-65, breaker lines 133-135, then lines 67-68 up to the await
\* of cacheService.set.  Or it throws: retry lines 66-79 up to the await of
\* the delay, or, after the last attempt, lines 83-87, breaker lines 136-138
\* and lines 77-90.
RemoteCallSettles(p) ==
    /\ task[p].pc = "remote"
    /\ \E response \in Responses :
        LET t == task[p]
            r == callLMStudio(response, t.transaction)
            error == Error(r.error, t.attempt)
            lastError == retryCatch(t.lastError, error)
        IN IF r.kind = "ok"
           THEN /\ task' = [task EXCEPT ![p] = [t EXCEPT !.pc = "cacheSet", !.attempt = 0, !.lastError = NoError, !.lastResolved = r.value, !.retried = retryReturn(r.value), !.assessment = r.value]]
                /\ UNCHANGED last
                /\ cb' = onSuccess(cb)
                /\ streak' = streakAfterSuccess(cb')
           ELSE IF retryBreaks(t.attempt, env.maxAttempts)
           THEN /\ Return(p, returned([t EXCEPT !.attempt = 0, !.lastError = NoError, !.failures = @ + 1, !.lastRaised = error, !.retried = retryThrow(lastError)], assessCatch(lastError, t.transaction)))
                /\ cb' = onFailure(cb, options, now)
                /\ streak' = streakAfterFailure(streak)
           ELSE /\ task' = [task EXCEPT ![p] = [t EXCEPT !.pc = "delay", !.failures = @ + 1, !.lastRaised = error, !.lastError = lastError]]
                /\ UNCHANGED <<cb, streak, last>>
    /\ UNCHANGED <<options, now, opCalls, callerVars, config, env, cache, fn, redisUp>>

\* The retry delay elapses: attempt++, the loop condition, the next attempt
\* up to its await (lines 57-59); when the condition fails, lines 83-87.
DelayElapses(p) ==
    /\ task[p].pc = "delay"
    /\ LET t == task[p]
       IN IF retryLoopCondition(t.attempt + 1, env.maxAttempts)
          THEN /\ task' = [task EXCEPT ![p] = [t EXCEPT !.pc = "remote", !.attempt = @ + 1, !.invocations = @ + 1]]
               /\ UNCHANGED <<cb, streak, last>>
          ELSE /\ Return(p, returned([t EXCEPT !.attempt = 0, !.lastError = NoError, !.retried = retryThrow(t.lastError)], assessCatch(t.lastError, t.transaction)))
               /\ cb' = onFailure(cb, options, now)
               /\ streak' = streakAfterFailure(streak)
    /\ UNCHANGED <<options, now, opCalls, callerVars, config, env, cache, fn, redisUp>>

\* The awaited cacheService.set resolves (true: stored; false: Redis failed),
\* then lines 70-76 and processTransaction lines 268-304 (were it to reject,
\* the catch block, lines 77-90, would answer).
CacheSetReturns(p) ==
    /\ task[p].pc = "cacheSet"
    /\ LET r == cacheServiceSet(redisUp, cache, task[p].transaction.id, task[p].assessment)
       IN IF r.kind = "ok" THEN cache' = r.cache /\ Return(p, returned(task[p], [kind |-> "ok", value |-> task[p].assessment]))
          ELSE UNCHANGED cache /\ Return(p, returned(task[p], assessCatch(Error(r.error, 0), task[p].transaction)))
    /\ UNCHANGED <<breakerVars, callerVars, config, env, fn, redisUp>>

\* The Redis server goes down or comes back.
RedisFlips ==
    /\ redisUp' = ~redisUp
    /\ UNCHANGED <<breakerVars, callerVars, pipelineVars, fn>>

Next ==
    \/ \E p \in Tasks : ProcessTransaction(p)
    \/ \E p \in Tasks : CacheHit(p)
    \/ \E p \in Tasks : CacheMissShortCircuit(p)
    \/ \E p \in Tasks : CacheMissInvoke(p)
    \/ \E p \in Tasks : RemoteCallSettles(p)
    \/ \E p \in Tasks : DelayElapses(p)
    \/ \E p \in Tasks : CacheSetReturns(p)
    \/ RedisFlips
    \/ Tick

Spec == Init /\ [][Next]_vars

\* ------------------------------ SpecRules: the rule configuration service
\* Rule lists, provider lists and thresholds a configuration file may hold.
HeavyRules == << [name |-> "large", enabled |-> TRUE, weight |-> 70, action |-> "flag", conditions |-> << [field |-> "amount", operator |-> "gt", value |-> 100000] >>],
                 [name |-> "not_small", enabled |-> TRUE, weight |-> 60, action |-> "block", conditions |-> << [field |-> "amount", operator |-> "gt", value |-> 500], [field |-> "amount", operator |-> "lt", value |-> 200000] >>],
                 [name |-> "everything", enabled |-> TRUE, weight |-> 5, action |-> "block", conditions |-> << >>] >>
RuleLists == {getDefaultConfig.rules, BlockingConfig.rules, BrokenConfig.rules, HeavyRules, << >>}

LowOnlyProviders == << [name |-> "stripe", priority |-> 2, riskTolerance |-> "low", enabled |-> TRUE], [name |-> "paypal", priority |-> 1, riskTolerance |-> "low", enabled |-> TRUE] >>
DisabledProviders == << [name |-> "adyen", priority |-> 1, riskTolerance |-> "high", enabled |-> FALSE], [name |-> "paypal", priority |-> 2, riskTolerance |-> "medium", enabled |-> FALSE] >>
ProviderLists == {getDefaultConfig.providers, BlockingConfig.providers, LowOnlyProviders, DisabledProviders, << >>}

ThresholdSets == {getDefaultConfig.thresholds, [low |-> 10, medium |-> 20, high |-> 50, critical |-> 70], NoThresholds}

ConfigFiles == [rules : RuleLists, providers : ProviderLists, thresholds : ThresholdSets]

\* What reading config/fraud-rules.yml may give: readFileSync throws, yaml.load
\* throws, the document has no rules or providers list, or it is a configuration.
ConfigSources == {[kind |-> "unreadable"], [kind |-> "malformed"], [kind |-> "incomplete"]} \cup [kind : {"parsed"}, config : ConfigFiles]

loadConfig_NoFallback(source) == IF source.kind = "parsed" THEN [kind |-> "ok", config |-> source.config] ELSE [kind |-> "err", error |-> source.kind]

\* loadConfig(): the parsed configuration, or the default one when anything in
\* the try block throws.
loadConfig(source) == IF source.kind = "parsed" THEN [kind |-> "ok", config |-> source.config] ELSE [kind |-> "ok", config |-> getDefaultConfig]

\* Risk scores the callers pass: numbers around every threshold and ceiling,
\* out-of-range numbers, and the two non-numbers.
ScoreGrid == {0 - 10, 0, 9, 10, 11, 19, 20, 21, 29, 30, 31, 49, 50, 51, 59, 60, 61, 69, 70, 71, 79, 80, 81, 89, 90, 91, 100, 150}
Scores == ScoreGrid \cup {NaN, UndefinedNumber}

InitRules ==
    /\ cb = NewCircuitBreaker
    /\ options = [failureThreshold |-> 1, resetTimeout |-> ResetTimeout, fallbackFunction |-> FALSE]
    /\ now = 0
    /\ call = [p \in Callers |-> [pc |-> "idle", n |-> 0, result |-> NoResult]]
    /\ opRet = [p \in Callers |-> NoResult]
    /\ opCalls = 0
    /\ streak = 0
    /\ config \in {loadConfig(source).config : source \in {s \in ConfigSources : loadConfig(s).kind = "ok"}}
    /\ env = [maxAttempts |-> 3, llmDisabled |-> FALSE]
    /\ cache = [id \in TxnIds |-> Null]
    /\ task = [p \in Tasks |-> IdleTask]
    /\ last = IdleTask
    /\ redisUp = TRUE
    /\ fn = NoCall

\* reloadConfig(): lines 82-84, 22-37.
ReloadConfig ==
    /\ \E source \in ConfigSources :
        LET r == loadConfig(source)
        IN /\ config' = IF r.kind = "ok" THEN r.config ELSE config
           /\ fn' = [op |-> "reloadConfig", source |-> source.kind, threw |-> r.kind # "ok"]
    /\ UNCHANGED <<breakerVars, callerVars, env, cache, task, last, redisUp>>

\* evaluateRiskFromRules(transaction) on some day of the week.
EvaluateRiskFromRules ==
    /\ \E request \in Requests, day \in Days :
        LET transaction == newTransaction(request.id, request.amount, request.email)
        IN fn' = [op |-> "evaluateRiskFromRules", transaction |-> transaction, day |-> day, result |-> evaluateRiskFromRules(config, transaction, day)]
    /\ UNCHANGED <<breakerVars, callerVars, pipelineVars, redisUp>>

\* selectProvider(riskScore)
SelectProvider ==
    /\ \E riskScore \in Scores : fn' = [op |-> "selectProvider", riskScore |-> riskScore, result |-> selectProvider(config, riskScore)]
    /\ UNCHANGED <<breakerVars, callerVars, pipelineVars, redisUp>>

\* PaymentService.determineTransactionStatus(riskScore)
DetermineTransactionStatus ==
    /\ \E riskScore \in Scores : fn' = [op |-> "determineTransactionStatus", riskScore |-> riskScore, result |-> determineTransactionStatus(config, riskScore)]
    /\ UNCHANGED <<breakerVars, callerVars, pipelineVars, redisUp>>

NextRules ==
    \/ ReloadConfig
    \/ EvaluateRiskFromRules
    \/ SelectProvider
    \/ DetermineTransactionStatus

SpecRules == InitRules /\ [][NextRules]_vars

\* --------------- SpecReload: reloadConfig() during processTransaction
\* The pipeline of Spec, with the configuration reloaded at any time, also
\* while a processTransaction call is suspended in the scorer call.
\* What the configuration file can hold at a reload: nothing readable, or
\* one of the configurations.
ReloadSources == {[kind |-> "unreadable"]} \cup [kind : {"parsed"}, config : Configs]

\* reloadConfig(): lines 82-84, 22-37.
ReloadDuringCalls ==
    /\ \E source \in ReloadSources :
        LET r == loadConfig(source)
        IN /\ config' = IF r.kind = "ok" THEN r.config ELSE config
           /\ fn' = [op |-> "reloadConfig", source |-> source.kind, threw |-> r.kind # "ok"]
    /\ UNCHANGED <<breakerVars, callerVars, env, cache, task, last, redisUp>>

\* The service starts with retries configured and the scorer enabled; the
\* requests are handled within one clock tick and the cache stays up.
InitReload ==
    /\ cb = NewCircuitBreaker
    /\ options \in [failureThreshold : 1..MaxThreshold, resetTimeout : {ResetTimeout}, fallbackFunction : {FALSE}]
    /\ now = 0
    /\ call = [p \in Callers |-> [pc |-> "idle", n |-> 0, result |-> NoResult]]
    /\ opRet = [p \in Callers |-> NoResult]
    /\ opCalls = 0
    /\ streak = 0
    /\ config \in Configs
    /\ env = [maxAttempts |-> MaxRetryAttempts, llmDisabled |-> FALSE]
    /\ cache = [id \in TxnIds |-> Null]
    /\ task = [p \in Tasks |-> IdleTask]
    /\ last = IdleTask
    /\ redisUp = TRUE
    /\ fn = NoCall

NextReload ==
    \/ \E p \in Tasks : ProcessTransaction(p)
    \/ \E p \in Tasks : CacheHit(p)
    \/ \E p \in Tasks : CacheMissShortCircuit(p)
    \/ \E p \in Tasks : CacheMissInvoke(p)
    \/ \E p \in Tasks : RemoteCallSettles(p)
    \/ \E p \in Tasks : DelayElapses(p)
    \/ \E p \in Tasks : CacheSetReturns(p)
    \/ ReloadDuringCalls

SpecReload == InitReload /\ [][NextReload]_vars

\* ------------------------------ SpecRetry: RetryService.execute alone
\* Math.pow(b, e) for a natural exponent.
RECURSIVE MathPow(_, _)
MathPow(b, e) == IF e = 0 THEN 1 ELSE b * MathPow(b, e - 1)

\* Math.random() takes a value k / RandomSteps, 0 <= k < RandomSteps.
RandomSteps == 4
Randoms == 0..(RandomSteps - 1)

calculateDelay_NoCap(attempt, opts, random) ==
    LET exponentialDelay == opts.baseDelay * MathPow(opts.backoffFactor, attempt - 1)
    IN IF opts.jitter THEN (exponentialDelay * (RandomSteps + random)) \div (2 * RandomSteps) ELSE exponentialDelay

\* calculateDelay(): min(baseDelay * backoffFactor^(attempt-1), maxDelay),
\* times (0.5 + Math.random() * 0.5) with jitter; in milliseconds (the
\* delays explored are multiples of 2 * RandomSteps, the division is exact).
calculateDelay(attempt, opts, random) ==
    LET exponentialDelay == MathMin(opts.baseDelay * MathPow(opts.backoffFactor, attempt - 1), opts.maxDelay)
    IN IF opts.jitter THEN (exponentialDelay * (RandomSteps + random)) \div (2 * RandomSteps) ELSE exponentialDelay

\* { ...defaultOptions, ...options }: the defaults (maxAttempts and baseDelay
\* from the environment, maxDelay 30000, backoffFactor 2, jitter) or overrides.
RetryOptions == [maxAttempts : 0..(MaxRetryAttempts + 1), baseDelay : {1000, 16000}, maxDelay : {30000, 1600}, backoffFactor : {2, 3}, jitter : BOOLEAN]

InitRetry ==
    /\ cb = NewCircuitBreaker
    /\ options = [failureThreshold |-> 1, resetTimeout |-> ResetTimeout, fallbackFunction |-> FALSE]
    /\ now = 0
    /\ call = [p \in Callers |-> [pc |-> "idle", n |-> 0, result |-> NoResult]]
    /\ opRet = [p \in Callers |-> NoResult]
    /\ opCalls = 0
    /\ streak = 0
    /\ config = getDefaultConfig
    /\ env = [maxAttempts |-> 3, llmDisabled |-> FALSE]
    /\ cache = [id \in TxnIds |-> Null]
    /\ task = [p \in Tasks |-> IdleTask]
    /\ last = IdleTask
    /\ redisUp = TRUE
    /\ fn = NoCall

\* execute(operation, options) is called: lines 54-59 up to the await of the
\* first attempt, or lines 83-87 when the loop does not run.
RetryExecute ==
    /\ IF fn.op = "execute" THEN fn.pc \in {"returned", "failed"} ELSE TRUE
    /\ \E opts \in RetryOptions :
        LET run == [op |-> "execute", opts |-> opts, pc |-> "operation", attempt |-> 1, invocations |-> 1, delays |-> << >>, lastError |-> NoError, outcome |-> NoResult]
        IN fn' = IF retryLoopCondition(1, opts.maxAttempts) THEN run
                 ELSE [run EXCEPT !.pc = "failed", !.invocations = 0, !.outcome = retryThrow(NoError)]
    /\ UNCHANGED <<breakerVars, callerVars, pipelineVars, redisUp>>

\* The awaited operation settles: lines 59-65, or lines 66-79 up to the await
\* of the delay, or, at the last attempt, lines 66-75 and 83-87.
RetryOperationSettles ==
    /\ fn.op = "execute" /\ fn.pc = "operation"
    /\ \/ \E v \in OpValues : fn' = [fn EXCEPT !.pc = "returned", !.outcome = retryReturn(v)]
       \/ \E e \in OpErrors, random \in Randoms :
            LET lastError == retryCatch(fn.lastError, Error(e, fn.attempt))
            IN fn' = IF retryBreaks(fn.attempt, fn.opts.maxAttempts)
                     THEN [fn EXCEPT !.pc = "failed", !.lastError = lastError, !.outcome = retryThrow(lastError)]
                     ELSE [fn EXCEPT !.pc = "delay", !.lastError = lastError, !.delays = Append(@, calculateDelay(fn.attempt, fn.opts, random))]
    /\ UNCHANGED <<breakerVars, callerVars, pipelineVars, redisUp>>

\* The awaited delay elapses: attempt++, the loop condition, the next attempt
\* up to its await (lines 57-59); when the condition fails, lines 83-87.
RetryDelayElapses ==
    /\ fn.op = "execute" /\ fn.pc = "delay"
    /\ fn' = IF retryLoopCondition(fn.attempt + 1, fn.opts.maxAttempts)
             THEN [fn EXCEPT !.pc = "operation", !.attempt = @ + 1, !.invocations = @ + 1]
             ELSE [fn EXCEPT !.pc = "failed", !.attempt = @ + 1, !.outcome = retryThrow(fn.lastError)]
    /\ UNCHANGED <<breakerVars, callerVars, pipelineVars, redisUp>>

NextRetry ==
    \/ RetryExecute
    \/ RetryOperationSettles
    \/ RetryDelayElapses

SpecRetry == InitRetry /\ [][NextRetry]_vars

\* ------------------------- SpecPayment: the payment controller's records
\* JSON.stringify(transaction): properties that are undefined are left out of
\* the text, a NaN is written as null.
JSONstringifyTransaction(value) ==
    [id |-> value.id, amount |-> value.amount, email |-> value.email, status |-> value.status,
     riskScore |-> value.riskScore, explanation |-> value.explanation, provider |-> value.provider,
     omitted |-> (IF value.riskScore = UndefinedNumber THEN {"riskScore"} ELSE {}) \cup (IF value.explanation = Undefined THEN {"explanation"} ELSE {}) \cup (IF value.provider = Undefined THEN {"provider"} ELSE {}),
     nulls |-> IF value.riskScore = NaN THEN {"riskScore"} ELSE {}]

\* JSON.parse(data) of a stored transaction; a null number is neither
\* undefined nor NaN, and is falsy like them.
NullNumber == -9997
JSONparseTransaction(data) ==
    [id |-> data.id, amount |-> data.amount, email |-> data.email, status |-> data.status,
     riskScore |-> IF "riskScore" \in data.omitted THEN UndefinedNumber ELSE IF "riskScore" \in data.nulls THEN NullNumber ELSE data.riskScore,
     explanation |-> IF "explanation" \in data.omitted THEN Undefined ELSE data.explanation,
     provider |-> IF "provider" \in data.omitted THEN Undefined ELSE data.provider]

\* What assessTransactionRisk can settle with for a transaction: a parsed
\* model answer, the fallback, or the TypeError of its catch block.
ScorerOutcomes(transaction) ==
    {[kind |-> "ok", value |-> parseLMStudioResponse(content, transaction)] : content \in Contents}
        \cup {assessCatch(error, transaction) : error \in {NoError, Error("request failed", 1)}}

\* processTransaction(transaction): the transaction it returns, which is the
\* object it was given, mutated.
processTransaction(cfg, transaction, day, assessed) ==
    LET fraudAssessment == evaluateRiskFromRules(cfg, transaction, day)
    IN IF fraudAssessment.threw THEN errorTransaction(transaction)
       ELSE IF isBlocked(fraudAssessment) THEN blockedTransaction(transaction)
       ELSE scoredTransaction(cfg, transaction, fraudAssessment, assessed)

\* The body of the 201 response, lines 110-116: || replaces a falsy value.
paymentResponse(processed) ==
    [transactionId |-> processed.id,
     provider |-> IF processed.provider = Undefined THEN "paypal" ELSE processed.provider,
     status |-> processed.status,
     riskScore |-> IF IsNumber(processed.riskScore) /\ processed.riskScore # 0 THEN processed.riskScore ELSE 50]

\* The controller: transactions is its Map (a missing key reads Null), store
\* the Redis entries under transaction:<id>, issued the ids generated so far,
\* current the payment whose handler is suspended (pc says where), lookup the
\* id a status request is reading from the cache, response the last response sent.
NoResponse == [code |-> 0]
NewController == [op |-> "controller", pc |-> "idle", current |-> "none", lookup |-> "none",
                  transactions |-> [id \in TxnIds |-> Null], store |-> [id \in TxnIds |-> Null], issued |-> {}, response |-> NoResponse]

InitPayment ==
    /\ cb = NewCircuitBreaker
    /\ options = [failureThreshold |-> 1, resetTimeout |-> ResetTimeout, fallbackFunction |-> FALSE]
    /\ now = 0
    /\ call = [p \in Callers |-> [pc |-> "idle", n |-> 0, result |-> NoResult]]
    /\ opRet = [p \in Callers |-> NoResult]
    /\ opCalls = 0
    /\ streak = 0
    /\ config \in Configs
    /\ env = [maxAttempts |-> 3, llmDisabled |-> FALSE]
    /\ cache = [id \in TxnIds |-> Null]
    /\ task = [p \in Tasks |-> IdleTask]
    /\ last = IdleTask
    /\ redisUp \in BOOLEAN
    /\ fn = NewController

\* processPayment(), lines 64-86 up to the await of cacheService.set.
ProcessPayment ==
    /\ fn.pc = "idle"
    /\ \E request \in Requests :
        /\ request.id \notin fn.issued
        /\ fn' = [fn EXCEPT !.pc = "cacheSet", !.current = request.id, !.issued = @ \cup {request.id},
                            !.transactions[request.id] = newTransaction(request.id, request.amount, request.email)]
    /\ UNCHANGED <<breakerVars, callerVars, pipelineVars, redisUp>>

\* The awaited cacheService.set settles (it never rejects); lines 88-98 up to
\* the await of processTransaction.
TransactionCacheSetReturns ==
    /\ fn.pc = "cacheSet"
    /\ fn' = [fn EXCEPT !.pc = "processing",
                        !.store = IF redisUp THEN [@ EXCEPT ![fn.current] = JSONstringifyTransaction(fn.transactions[fn.current])] ELSE @]
    /\ UNCHANGED <<breakerVars, callerVars, pipelineVars, redisUp>>

\* The awaited processTransaction returns (it never rejects): lines 98-118.
ProcessTransactionReturns ==
    /\ fn.pc = "processing"
    /\ \E day \in Days, assessed \in ScorerOutcomes(fn.transactions[fn.current]) :
        LET processedTransaction == processTransaction(config, fn.transactions[fn.current], day, assessed)
        IN fn' = [fn EXCEPT !.pc = "idle", !.current = "none", !.transactions[fn.current] = processedTransaction,
                            !.response = [code |-> 201, body |-> paymentResponse(processedTransaction)]]
    /\ UNCHANGED <<breakerVars, callerVars, pipelineVars, redisUp>>

\* getPaymentStatus(), lines 128-157: answered from the Map, or up to the
\* await of cacheService.get.
GetPaymentStatus ==
    /\ fn.lookup = "none"
    /\ \E transactionId \in TxnIds :
        LET transaction == fn.transactions[transactionId]
        IN fn' = IF transaction # Null
                 THEN [fn EXCEPT !.response = [code |-> 200, transactionId |-> transactionId, from |-> "memory", status |-> transaction.status]]
                 ELSE [fn EXCEPT !.lookup = transactionId]
    /\ UNCHANGED <<breakerVars, callerVars, pipelineVars, redisUp>>

\* The awaited cacheService.get settles: lines 136-157.
StatusCacheGetReturns ==
    /\ fn.lookup # "none"
    /\ LET data == IF redisUp THEN fn.store[fn.lookup] ELSE Null
       IN fn' = [fn EXCEPT !.lookup = "none",
                           !.response = IF data = Null THEN [code |-> 404, transactionId |-> fn.lookup]
                                        ELSE [code |-> 200, transactionId |-> fn.lookup, from |-> "cache", status |-> JSONparseTransaction(data).status]]
    /\ UNCHANGED <<breakerVars, callerVars, pipelineVars, redisUp>>

\* The process restarts: a new PaymentController with an empty Map (line 62);
\* Redis keeps its entries and the requests in flight are gone.
ControllerRestarts ==
    /\ fn' = [fn EXCEPT !.pc = "idle", !.current = "none", !.lookup = "none", !.transactions = [id \in TxnIds |-> Null], !.response = NoResponse]
    /\ UNCHANGED <<breakerVars, callerVars, pipelineVars, redisUp>>

NextPayment ==
    \/ ProcessPayment
    \/ TransactionCacheSetReturns
    \/ ProcessTransactionReturns
    \/ GetPaymentStatus
    \/ StatusCacheGetReturns
    \/ ControllerRestarts
    \/ RedisFlips

SpecPayment == InitPayment /\ [][NextPayment]_vars

\* ------------------------------------------------ CircuitBreaker claims
\* Caller p makes an execute() call in this step.
EntersExecute(p) == call'[p].n = call[p].n + 1

\* The operation of caller p's call completes in this step.
OperationCompletes(p) == call[p].pc = "op" /\ call'[p].pc = "idle"

\* C1: counting from a breaker that is CLOSED with failureCount 0, a failed
\* execute() call that is the failureThreshold-th in a row leaves the breaker
\* OPEN with nextAttempt = the time of that failure + resetTimeout, and a
\* failed call that is still below the threshold leaves it CLOSED.
C1_TripAtThreshold == [][(streak # NoStreak /\ streak' = streak + 1) => IF streak' < options.failureThreshold THEN cb'.state = "CLOSED" ELSE (streak' = options.failureThreshold => (cb'.state = "OPEN" /\ cb'.lastFailureTime = now /\ cb'.nextAttempt = now + options.resetTimeout))]_vars

\* C1 witness: the breaker has just been tripped by the second of two
\* consecutive failures (the first one left it CLOSED).
C1_Witness == options.failureThreshold = 2 /\ streak = 2 /\ cb.state = "OPEN" /\ cb.lastFailureTime = now /\ cb.nextAttempt = now + ResetTimeout

\* C2: an execute() call made while the breaker is OPEN and the reset timeout
\* has not elapsed does not invoke the operation; it returns the fallback
\* function's value when one is configured and otherwise fails with the
\* 'service unavailable' error.
C2_ShortCircuit == [][\A p \in Callers : (EntersExecute(p) /\ cb.state = "OPEN" /\ (cb.nextAttempt = NoDate \/ now < cb.nextAttempt)) => (opCalls' = opCalls /\ call'[p].pc = "idle" /\ call'[p].result = IF options.fallbackFunction THEN [kind |-> "ok", value |-> FallbackValue] ELSE [kind |-> "err", error |-> ServiceUnavailable])]_vars

\* C2 witness: a call was answered by the configured fallback while OPEN.
C2_Witness == \E p \in Callers : cb.state = "OPEN" /\ now < cb.nextAttempt /\ call[p].pc = "idle" /\ call[p].result = [kind |-> "ok", value |-> FallbackValue]

\* C3 (the claim as stated): whenever an operation fails while the breaker is
\* HALF_OPEN, that failure moves the breaker to OPEN.
C3_HalfOpenFailureReopens == [][\A p \in Callers : (OperationCompletes(p) /\ opRet'[p].kind = "err" /\ cb.state = "HALF_OPEN") => cb'.state = "OPEN"]_vars

\* C4: an execute() call made while the breaker is OPEN and the reset timeout
\* has elapsed moves the breaker to HALF_OPEN and invokes the operation.
C4_Probe == [][\A p \in Callers : (EntersExecute(p) /\ cb.state = "OPEN" /\ cb.nextAttempt # NoDate /\ now >= cb.nextAttempt) => (cb'.state = "HALF_OPEN" /\ call'[p].pc = "op" /\ opCalls' = opCalls + 1)]_vars

\* C4 witness: a probe is in flight in HALF_OPEN after the timeout elapsed.
C4_Witness == \E p \in Callers : cb.state = "HALF_OPEN" /\ call[p].pc = "op" /\ now >= cb.nextAttempt /\ cb.failureCount >= options.failureThreshold

\* C5: a successful operation resets failureCount to 0, adds 1 to
\* successCount, closes a HALF_OPEN breaker, and execute() returns the value
\* the operation resolved with.
C5_Success == [][\A p \in Callers : (OperationCompletes(p) /\ opRet'[p].kind = "ok") => (cb'.failureCount = 0 /\ cb'.successCount = cb.successCount + 1 /\ (cb.state = "HALF_OPEN" => cb'.state = "CLOSED") /\ call'[p].result = [kind |-> "ok", value |-> opRet'[p].value])]_vars

\* C5 witness: a probe succeeded after the breaker had tripped, and the
\* breaker is CLOSED again with its failure counter reset.
C5_Witness == \E p \in Callers : cb.state = "CLOSED" /\ cb.nextAttempt # NoDate /\ cb.failureCount = 0 /\ cb.successCount >= 1 /\ call[p].result.kind = "ok" /\ call[p].result.value \in OpValues

\* ------------------------------------------------------ pipeline claims
\* The processTransaction calls on record: the one that returned last, and
\* the ones in progress.
CallRecords == {last} \cup {task[p] : p \in Tasks}

FallbackAssessment(t) == [transactionId |-> t.transaction.id, riskScore |-> 50, riskLevel |-> "MEDIUM", explanation |-> FallbackExplanation]

\* C6: when RetryService.execute fails with maxAttempts >= 1 (every invocation
\* of the operation failed), the operation was invoked exactly maxAttempts
\* times and the error thrown is the one the last invocation raised.
C6_RetryExhaustion == \A t \in CallRecords : (t.retried.kind = "err" /\ env.maxAttempts >= 1) => (t.invocations = env.maxAttempts /\ t.failures = env.maxAttempts /\ t.retried.error = t.lastRaised /\ t.retried.error.attempt = env.maxAttempts)

\* C6 witness: two attempts were made, both failed, and execute has thrown
\* the error of the second one.
C6_Witness == env.maxAttempts = 2 /\ last.retried.kind = "err" /\ last.invocations = 2 /\ last.lastRaised.attempt = 2 /\ last.retried.error.message = NotRunning

\* C7: when RetryService.execute returns after k failed invocations
\* (k < maxAttempts), it returns the value the operation resolved with and the
\* operation was invoked exactly k + 1 times.
C7_RetrySuccess == \A t \in CallRecords : t.retried.kind = "ok" => (t.failures < env.maxAttempts /\ t.invocations = t.failures + 1 /\ t.retried.value = t.lastResolved /\ (t.pc = "cacheSet" => t.assessment = t.lastResolved))

\* C7 witness: the operation failed once, then succeeded, and execute returned.
C7_Witness == last.retried.kind = "ok" /\ last.failures = 1 /\ last.invocations = 2 /\ last.retried.value = last.lastResolved

\* C8: when rule evaluation returns at least one blocked rule name,
\* processTransaction returns status FAILED, riskScore 1.0, provider 'blocked'
\* without calling the scorer: no cache lookup, no breaker call, no remote call.
C8_BlockingPrecedence == \A t \in CallRecords : Len(t.fraudAssessment.blockedRules) > 0 => (t.pc = "done" /\ t.transaction.status = "failed" /\ t.transaction.riskScore = 100 /\ t.transaction.provider = "blocked" /\ ~t.scorer /\ ~t.lookedUp /\ ~t.executed /\ t.invocations = 0)

\* C8 witness: a transaction was blocked by exactly one rule.
C8_Witness == last.path = "blocked" /\ Len(last.fraudAssessment.blockedRules) = 1 /\ last.transaction.provider = "blocked"

\* C9 (the claim as stated): every processTransaction call returns a
\* transaction with status, riskScore, provider and explanation set, and when
\* rule evaluation or status mapping threw, the result is FAILED, 1.0, 'error'.
C9_WellFormedResult == last.pc = "done" => (/\ last.transaction.status \in {"success", "processing", "pending", "failed"}
                                            /\ last.transaction.riskScore # UndefinedNumber
                                            /\ last.transaction.provider # Undefined
                                            /\ last.transaction.explanation # Undefined
                                            /\ ((last.fraudAssessment.threw \/ last.path = "error") => (last.transaction.status = "failed" /\ last.transaction.riskScore = 100 /\ last.transaction.provider = "error")))

\* C10 (the claim as stated): assessTransactionRisk never fails, and when the
\* breaker short-circuited or every retry attempt failed it returns the
\* fallback assessment (0.5, MEDIUM, the transaction's id).
C10_ScorerNeverFails == (last.pc = "done" /\ last.scorer) => (/\ last.assessed.kind = "ok"
                                                              /\ ((last.executed /\ last.retried.kind # "ok") => last.assessed.value = FallbackAssessment(last)))

\* ------------------------------------------- scoring and rule claims
\* C11 (the claim as stated): with the default thresholds and no blocking
\* rule, a processed transaction whose final score s has 0.3 <= s < 0.6 has
\* status PROCESSING.
C11_MidScoreProcessing == (last.pc = "done" /\ last.path \in {"scored", "rulesOnly"} /\ config.thresholds = [low |-> 30, medium |-> 60, high |-> 80, critical |-> 90] /\ Len(last.fraudAssessment.blockedRules) = 0 /\ last.transaction.riskScore >= 30 /\ last.transaction.riskScore < 60) => last.transaction.status = "processing"

\* C12: for a numeric score s and thresholds medium < high < critical,
\* determineTransactionStatus gives FAILED when s >= critical, PENDING when
\* high <= s < critical, PROCESSING when medium <= s < high and SUCCESS when
\* s < medium (a score equal to a threshold is in the higher band).
C12_StatusMapping ==
    (fn.op = "determineTransactionStatus" /\ IsNumber(fn.riskScore) /\ config.thresholds # NoThresholds) =>
        LET s == fn.riskScore
            th == config.thresholds
        IN (th.medium < th.high /\ th.high < th.critical) =>
            /\ (s >= th.critical => fn.result = "failed")
            /\ ((th.high <= s /\ s < th.critical) => fn.result = "pending")
            /\ ((th.medium <= s /\ s < th.high) => fn.result = "processing")
            /\ (s < th.medium => fn.result = "success")

\* C12 witness: a score equal to the high threshold was mapped to PENDING.
C12_Witness == fn.op = "determineTransactionStatus" /\ config.thresholds # NoThresholds /\ config.thresholds.high = 80 /\ fn.riskScore = 80 /\ fn.result = "pending"

\* C13: for a non-blocked transaction processed with a numeric score from
\* the scorer, the riskScore stored on the transaction is the larger of the
\* rule-engine score and the scorer's score.
C13_ScoreCombination ==
    (last.pc = "done" /\ last.path = "scored" /\ IsNumber(last.assessed.value.riskScore)) =>
        LET ruleEngineScore == last.fraudAssessment.score
            modelScore == last.assessed.value.riskScore
        IN /\ last.transaction.riskScore \in {ruleEngineScore, modelScore}
           /\ last.transaction.riskScore >= ruleEngineScore
           /\ last.transaction.riskScore >= modelScore

\* C13 witness: rule score 0.3 and scorer score 0.7 gave 0.7.
C13_Witness == last.pc = "done" /\ last.path = "scored" /\ last.fraudAssessment.score = 30 /\ last.assessed.value.riskScore = 70 /\ last.transaction.riskScore = 70

\* C14 (the claim as stated): after processTransaction returns, the
\* transaction's riskScore is a number within [0, 1].
C14_RiskScoreRange == last.pc = "done" => (IsNumber(last.transaction.riskScore) /\ last.transaction.riskScore >= 0 /\ last.transaction.riskScore <= 100)

\* The remote call of task p settles in this step with content that is not
\* JSON: callLMStudio resolves with the fallback assessment only then.
MalformedResponse(p) == task[p].pc = "remote" /\ task'[p].pc = "cacheSet" /\ task'[p].lastResolved = FallbackAssessment(task[p])

\* C15 (the claim as stated): a response whose content cannot be parsed gives
\* the caller the fallback assessment and the circuit breaker counts a
\* failure (failureCount incremented, not reset to 0).
C15_MalformedIsFailure == [][\A p \in Tasks : MalformedResponse(p) => (task'[p].assessment = FallbackAssessment(task[p]) /\ cb'.failureCount = cb.failureCount + 1)]_vars

\* The tolerance ceilings the specification gives: low 0.3, medium 0.6, high 0.8.
Ceiling(tier) == CASE tier = "low" -> 30 [] tier = "medium" -> 60 [] tier = "high" -> 80

\* Positions of the enabled providers in the configuration / of those among
\* them whose ceiling is >= the score s (no ceiling is >= a non-number).
EnabledProviders == {i \in 1..Len(config.providers) : config.providers[i].enabled}
Qualifying(s) == {i \in EnabledProviders : IsNumber(s) /\ s <= Ceiling(config.providers[i].riskTolerance)}

\* Provider i comes before provider j in ascending priority order (providers
\* of equal priority keep their configuration order).
Before(i, j) == config.providers[i].priority < config.providers[j].priority \/ (config.providers[i].priority = config.providers[j].priority /\ i < j)

\* The choice the specification describes: the first qualifying enabled
\* provider, else the last enabled one, else 'paypal'.
SelectedAsSpecified(s, name) ==
    IF EnabledProviders = {} THEN name = "paypal"
    ELSE IF Qualifying(s) # {} THEN \E i \in Qualifying(s) : name = config.providers[i].name /\ \A j \in Qualifying(s) \ {i} : Before(i, j)
    ELSE \E i \in EnabledProviders : name = config.providers[i].name /\ \A j \in EnabledProviders \ {i} : Before(j, i)

\* name is the name of a disabled provider (and of no enabled one).
IsDisabledProvider(name) == (\E i \in 1..Len(config.providers) : config.providers[i].name = name /\ ~config.providers[i].enabled) /\ ~(\E i \in EnabledProviders : config.providers[i].name = name)

\* C16 (the claim as stated): selectProvider returns the provider the
\* specification describes, and never a disabled provider.
C16_ProviderSelectionAsStated == fn.op = "selectProvider" => (SelectedAsSpecified(fn.riskScore, fn.result) /\ ~IsDisabledProvider(fn.result))

\* C16 (amended): selectProvider returns the provider the specification
\* describes; it returns a disabled provider only as the default 'paypal',
\* when no provider is enabled.
C16_ProviderSelection == fn.op = "selectProvider" => (SelectedAsSpecified(fn.riskScore, fn.result) /\ (IsDisabledProvider(fn.result) => (EnabledProviders = {} /\ fn.result = "paypal")))

\* C16 witness: for score 0.7 the disabled high-tolerance provider of
\* priority 2 was skipped and the enabled one of priority 3 selected.
C16_Witness == fn.op = "selectProvider" /\ config.providers = BlockingConfig.providers /\ fn.riskScore = 70 /\ fn.result = "square"

\* Every condition of the rule holds for the transaction of the last call.
AllConditionsHold(rule) == \A k \in 1..Len(rule.conditions) : evaluateCondition(rule.conditions[k], fn.transaction, fn.day) = "true"

\* Positions of the enabled rules all of whose conditions hold.
MatchedRules == {i \in 1..Len(config.rules) : config.rules[i].enabled /\ AllConditionsHold(config.rules[i])}

\* Sum of the weights of the rules at the positions in S.
RECURSIVE SumOfWeights(_)
SumOfWeights(S) == IF S = {} THEN 0 ELSE LET i == CHOOSE i \in S : TRUE IN config.rules[i].weight + SumOfWeights(S \ {i})

\* The names of a sequence of rules.
RuleNames(rules) == [i \in 1..Len(rules) |-> rules[i].name]

\* C17: when evaluateRiskFromRules returns, score = min(1.0, sum of the
\* weights of the enabled rules all of whose conditions hold), factors are
\* the names of those rules and blockedRules the names of those among them
\* whose action is 'block'; disabled rules and rules with a false condition
\* contribute nothing.
C17_RuleEvaluation ==
    (fn.op = "evaluateRiskFromRules" /\ ~fn.result.threw) =>
        /\ fn.result.score = (IF SumOfWeights(MatchedRules) > 100 THEN 100 ELSE SumOfWeights(MatchedRules))
        /\ fn.result.factors = RuleNames(SelectSeq(config.rules, LAMBDA rule : rule.enabled /\ AllConditionsHold(rule)))
        /\ fn.result.blockedRules = RuleNames(SelectSeq(config.rules, LAMBDA rule : rule.enabled /\ AllConditionsHold(rule) /\ rule.action = "block"))

\* C17 witness: three enabled rules matched (weights 0.5 + 0.4 + 0.3, capped
\* at 1.0), one of them blocking, and a disabled blocking rule whose condition
\* holds was left out.
C17_Witness == fn.op = "evaluateRiskFromRules" /\ config.rules = BlockingConfig.rules /\ fn.transaction.amount = 200000 /\ fn.day = "weekend" /\ fn.result.score = 100 /\ fn.result.blockedRules = << "suspicious_domain" >>

\* The last call was a reloadConfig() whose file could not be read or parsed.
ReloadFailed == fn.op = "reloadConfig" /\ fn.source \in {"unreadable", "malformed"}

\* C18: a reloadConfig() whose file cannot be read or parsed does not throw;
\* the active configuration is then the embedded default (one rule
\* 'high_amount_rule', two providers, the default thresholds), and every
\* evaluateRiskFromRules and selectProvider call on it succeeds.
C18_ReloadFallsBack ==
    ReloadFailed =>
        /\ ~fn.threw
        /\ Len(config.rules) = 1 /\ config.rules[1].name = "high_amount_rule"
        /\ Len(config.providers) = 2
        /\ config.thresholds = [low |-> 30, medium |-> 60, high |-> 80, critical |-> 90]
        /\ \A request \in Requests, day \in Days : ~evaluateRiskFromRules(config, newTransaction(request.id, request.amount, request.email), day).threw
        /\ \A riskScore \in Scores : \E i \in 1..Len(config.providers) : config.providers[i].enabled /\ selectProvider(config, riskScore) = config.providers[i].name

\* C18 witness: a reload of a file that does not parse returned normally and
\* the default rule is active.
C18_Witness == ReloadFailed /\ fn.source = "malformed" /\ ~fn.threw /\ config.rules[1].name = "high_amount_rule"

\* ------------------------------------------------------- cache claims
\* Task p's record after a step of p: the returned record once its call has
\* returned, its task record otherwise.
AfterStep(p) == IF task'[p].pc = "done" THEN last' ELSE task'[p]

\* The awaited cacheService.get / cacheService.set of task p settles in this step.
CacheGetSettles(p) == task[p].pc = "cacheGet" /\ task'[p] # task[p]
CacheSetSettles(p) == task[p].pc = "cacheSet" /\ task'[p] # task[p]

\* C19: with Redis unavailable a cache get is a miss (null) and a cache set a
\* no-op, and neither raises: assessTransactionRisk goes on to the circuit
\* breaker after the failed get, and returns its assessment, leaving the
\* cache as it was, after the failed set.
C19_CacheFailureTolerated ==
    [][\A p \in Tasks :
        /\ (CacheGetSettles(p) /\ ~redisUp) => (cachedResult(p) = [kind |-> "ok", value |-> Null] /\ AfterStep(p).executed)
        /\ (CacheSetSettles(p) /\ ~redisUp) => (cache' = cache /\ last'.assessed = [kind |-> "ok", value |-> task[p].assessment])]_vars

\* C19 witness: a call got an assessment from the remote scorer and returned
\* it while Redis was down: nothing was stored.
C19_Witness == last.pc = "done" /\ ~redisUp /\ last.executed /\ last.invocations >= 1 /\ last.lastResolved # Null /\ last.assessed = [kind |-> "ok", value |-> last.lastResolved] /\ cache[last.transaction.id] = Null

\* C20: on a cache hit assessTransactionRisk returns the cached assessment
\* without invoking the remote scorer or the circuit breaker: the breaker's
\* state and counters are unchanged.
C20_CacheHitBypassesBreaker ==
    [][\A p \in Tasks :
        (CacheGetSettles(p) /\ redisUp /\ cache[task[p].transaction.id] # Null) =>
            /\ task'[p].pc = "done"
            /\ last'.assessed = [kind |-> "ok", value |-> JSONparse(cache[task[p].transaction.id])]
            /\ last'.invocations = 0 /\ ~last'.executed
            /\ cb' = cb /\ opCalls' = opCalls]_vars

\* C20 witness: a call looked the transaction up, found it cached and returned
\* a scored transaction without going through the breaker.
C20_Witness == last.pc = "done" /\ last.lookedUp /\ ~last.executed /\ last.path = "scored" /\ last.assessed.kind = "ok" /\ cache[last.transaction.id] # Null /\ last.assessed.value = JSONparse(cache[last.transaction.id])

\* ------------------------------------------ breaker concurrency claims
\* The operation of caller p's call resolves / rejects in this step.
CompletesSuccessfully(p) == OperationCompletes(p) /\ opRet'[p].kind = "ok"
CompletesWithFailure(p) == OperationCompletes(p) /\ opRet'[p].kind = "err"

\* C21: under any interleaving of execute() calls no counter update is lost:
\* successCount starts at 0, grows by exactly 1 with every operation that
\* completes successfully and changes in no other step (so it equals the
\* number of successful completions), and every failed completion leaves
\* failureCount exactly 1 above its value at the moment of completion.
C21_NoLostUpdate ==
    [][/\ \A p \in Callers : CompletesSuccessfully(p) => cb'.successCount = cb.successCount + 1
       /\ \A p \in Callers : CompletesWithFailure(p) => cb'.failureCount = cb.failureCount + 1
       /\ (\A p \in Callers : ~CompletesSuccessfully(p)) => cb'.successCount = cb.successCount]_vars

\* C21 witness: two successes and one failure have been counted while another
\* call's operation, entered before the failure completed, is still in flight.
C21_Witness == cb.successCount = 2 /\ cb.failureCount = 1 /\ \E p \in Callers, q \in Callers : p # q /\ call[p].pc = "op" /\ call[q].pc = "idle" /\ call[q].result.kind = "err" /\ call[p].n = MaxCallsPerCaller /\ call[q].n = MaxCallsPerCaller

\* ------------------------------------------------ error-handling claims
\* The call on record t ended its remote scoring on a response whose choices
\* list was empty: RetryService.execute threw the TypeError of callLMStudio.
MissingChoices(t) == t.pc = "done" /\ t.retried.kind = "err" /\ t.retried.error.message = callLMStudio([kind |-> "noChoices"], t.transaction).error

\* C22 (the claim as stated): when the remote scoring call returns a response
\* with an empty choices list, assessTransactionRisk rejects instead of
\* returning an assessment.
C22_MissingChoicesRejects == MissingChoices(last) => last.assessed.kind = "err"

\* Caller p's execute() call invokes the operation in this step.
InvokesOperation(p) == call[p].pc = "idle" /\ call'[p].pc = "op"

\* C23 (the claim as stated): while the breaker is HALF_OPEN and a probe
\* operation is in flight, no other execute() call invokes the operation.
C23_SingleProbe == [][\A p \in Callers : (cb.state = "HALF_OPEN" /\ \E q \in Callers \ {p} : call[q].pc = "op") => ~InvokesOperation(p)]_vars

\* C24 (the claim as stated): whenever the breaker is OPEN or HALF_OPEN its
\* failure counter is >= failureThreshold.
C24_OpenFailureCount == cb.state \in {"OPEN", "HALF_OPEN"} => cb.failureCount >= options.failureThreshold

\* ------------------------------------------------------ liveness claims
\* C25: if from some point on every invoked operation succeeds, time keeps
\* advancing and execute() keeps being called, the breaker eventually is
\* CLOSED and stays CLOSED: it does not remain OPEN or HALF_OPEN forever.
C25_Recovery == <>[](cb.state = "CLOSED")

\* C25 witness: the breaker was open past MaxTime, the clock reached its
\* nextAttempt, a later call probed it and it is CLOSED again with every
\* call settled.
C25_Witness == cb.state = "CLOSED" /\ now > MaxTime /\ cb.failureCount = 0 /\ \A p \in Callers : call[p].pc = "idle" /\ call[p].n = MaxCallsPerCaller /\ call[p].result.kind = "ok"

\* ------------------------------------------------------ pipeline claims
\* The scorer call of record t is in progress (processTransaction is
\* suspended in its await of assessTransactionRisk).
ScorerInProgress(t) == t.pc \in {"cacheGet", "remote", "delay", "cacheSet"}

\* C26: within one processTransaction call, rule evaluation has completed
\* (without blocking) before the scorer is invoked, and provider selection
\* and status mapping happen only after the scorer call has returned or
\* failed: while it is in progress the transaction has no provider, score or
\* new status, and a scored transaction's provider and status are those of a
\* call whose scorer has settled.
C26_PipelineOrder ==
    \A t \in CallRecords :
        /\ t.scorer => (~t.fraudAssessment.threw /\ ~isBlocked(t.fraudAssessment) /\ \E day \in Days : t.fraudAssessment = evaluateRiskFromRules(config, t.transaction, day))
        /\ ScorerInProgress(t) => (t.scorer /\ t.assessed = NoResult /\ t.transaction.provider = Undefined /\ t.transaction.status = "pending" /\ t.transaction.riskScore = UndefinedNumber)
        /\ (t.pc = "done" /\ t.path \in {"scored", "rulesOnly"}) => (t.scorer /\ t.assessed # NoResult /\ t.transaction.provider = selectProvider(config, t.transaction.riskScore) /\ t.transaction.status = determineTransactionStatus(config, t.transaction.riskScore))

\* C26 witness: one call, whose rules gave a positive score, waits for the
\* remote scorer with no provider selected yet; another has returned a
\* transaction scored by the remote scorer.
C26_Witness == last.pc = "done" /\ last.path = "scored" /\ last.invocations >= 1 /\ \E p \in Tasks : task[p].pc = "remote" /\ task[p].fraudAssessment.score > 0 /\ task[p].transaction.provider = Undefined

\* The values of TransactionStatus.
TransactionStatuses == {"success", "processing", "pending", "failed"}

\* C27: a transaction enters processTransaction with status PENDING; its
\* status changes only in the synchronous run that ends the call, which
\* leaves it at one of SUCCESS, PROCESSING, PENDING or FAILED on every path
\* (blocked, scored, rules-only, error); until then every observer sees
\* PENDING.
C27_SingleStatusTransition ==
    /\ [](/\ \A p \in Tasks : task[p].pc # "done" => task[p].transaction.status = "pending"
          /\ last.pc = "done" => (last.path \in {"blocked", "scored", "rulesOnly", "error"} /\ last.transaction.status \in TransactionStatuses))
    /\ [][\A p \in Tasks : (task'[p] # task[p] /\ AfterStep(p).transaction.status # task[p].transaction.status) => task'[p].pc = "done"]_vars

\* C27 witness: a call has returned a transaction whose status went from
\* PENDING to PROCESSING while another call, suspended in the scorer, still
\* shows PENDING.
C27_Witness == last.pc = "done" /\ last.path = "scored" /\ last.transaction.status = "processing" /\ \E p \in Tasks : ScorerInProgress(task[p]) /\ task[p].transaction.status = "pending"

\* The scorer call of record t raised to processTransaction.
ScorerRaised(t) == t.pc = "done" /\ t.scorer /\ t.assessed.kind = "err"

ScheduledDelay(opts, n) ==
    LET exponential == CASE n = 1 -> opts.baseDelay
                         [] n = 2 -> opts.baseDelay * opts.backoffFactor
                         [] n = 3 -> opts.baseDelay * opts.backoffFactor * opts.backoffFactor
    IN IF exponential < opts.maxDelay THEN exponential ELSE opts.maxDelay

\* C29: the delay slept after failed attempt n (1 <= n < maxAttempts) is
\* min(baseDelay * backoffFactor^(n-1), maxDelay) without jitter and lies
\* between half of that and that with jitter; no delay is slept after the
\* final failed attempt: an exhausted execute() (maxAttempts >= 1) has slept
\* exactly maxAttempts - 1 times.
C29_BackoffSchedule ==
    fn.op = "execute" =>
        /\ \A n \in 1..Len(fn.delays) :
            /\ n < fn.opts.maxAttempts
            /\ IF fn.opts.jitter THEN 2 * fn.delays[n] >= ScheduledDelay(fn.opts, n) /\ fn.delays[n] <= ScheduledDelay(fn.opts, n)
               ELSE fn.delays[n] = ScheduledDelay(fn.opts, n)
        /\ (fn.pc = "failed" /\ fn.opts.maxAttempts >= 1) => Len(fn.delays) = fn.opts.maxAttempts - 1

\* C29 witness: three attempts failed without jitter; the two delays slept
\* were 16000 and the cap, 30000, and none followed the third failure.
C29_Witness == fn.op = "execute" /\ fn.pc = "failed" /\ fn.opts.maxAttempts = 3 /\ ~fn.opts.jitter /\ fn.invocations = 3 /\ fn.delays = << 16000, 30000 >>

\* ------------------------------------------------------ provider claims
\* C30 (the claim as stated): when no enabled provider's ceiling is >= the
\* risk score, the provider selectProvider returns has the highest tolerance
\* ceiling among the enabled providers.
C30_CatchAllMostTolerant ==
    (fn.op = "selectProvider" /\ IsNumber(fn.riskScore) /\ EnabledProviders # {} /\ Qualifying(fn.riskScore) = {}) =>
        \E i \in EnabledProviders :
            /\ config.providers[i].name = fn.result
            /\ \A j \in EnabledProviders : Ceiling(config.providers[j].riskTolerance) <= Ceiling(config.providers[i].riskTolerance)

\* ------------------------------------------------ open-window claims
\* C31 (the claim as stated): whenever the breaker is OPEN, nextAttempt is
\* lastFailureTime + resetTimeout (the open window is measured from the most
\* recent recorded failure).
C31_OpenWindowFromLastFailure == cb.state = "OPEN" => cb.nextAttempt = cb.lastFailureTime + options.resetTimeout

\* ------------------------------------------------------- frame claims
\* Caller p's execute() call is short-circuited in this step: it returns (or
\* throws) from callFallback without invoking the operation.
ShortCircuited(p) == EntersExecute(p) /\ call'[p].pc = "idle"

\* getState() or getStats() is called in this step.
ReadsBreaker == fn' # fn /\ fn'.op \in {"getState", "getStats"}

\* C32: an execute() call that is short-circuited while OPEN changes none of
\* state, failureCount, successCount, lastFailureTime and nextAttempt, and
\* neither do getState() and getStats(), which report the fields as they are.
C32_ShortCircuitFrame ==
    [][/\ \A p \in Callers : ShortCircuited(p) => (cb.state = "OPEN" /\ cb' = cb)
       /\ ReadsBreaker => (cb' = cb /\ (IF fn'.op = "getState" THEN fn'.result = cb.state ELSE fn'.result = [state |-> cb.state, failureCount |-> cb.failureCount, successCount |-> cb.successCount, lastFailureTime |-> cb.lastFailureTime]))]_vars

\* C32 witness: a call was short-circuited (it got the fallback's answer and
\* no operation ran for it) and getStats() then reported the breaker OPEN
\* with the failure count and time of the failure that opened it.
C32_Witness == fn.op = "getStats" /\ fn.result.state = "OPEN" /\ fn.result.failureCount = options.failureThreshold /\ fn.result.lastFailureTime = cb.lastFailureTime /\ cb.nextAttempt = cb.lastFailureTime + options.resetTimeout /\ \E p \in Callers : call[p].pc = "idle" /\ call[p].result = callFallback(options) /\ opRet[p] = NoResult /\ call[p].n >= 1

\* ------------------------------------------- breaker and retry claims
\* RetryService.execute of task p fails in this step (every attempt failed).
RetryFails(p) == task[p].retried = NoResult /\ AfterStep(p).retried.kind = "err"

\* Record t's assessTransactionRisk call was short-circuited by the breaker.
WasShortCircuited(t) == t.executed /\ t.retried = NoResult /\ t.pc \in {"cacheSet", "done"}

\* C33: the breaker wraps the whole retry sequence.  A call that went through
\* the breaker (maxAttempts >= 1) invokes the remote call between 1 and
\* maxAttempts times, and its retry fails exactly when all of these failed; a
\* short-circuited call invokes it 0 times; and in a step of a call
\* failureCount grows, by exactly 1, if and only if the call's retry sequence
\* fails in that step (a failed attempt that is retried is not counted).
C33_BreakerWrapsRetry ==
    /\ [](\A t \in CallRecords :
            /\ (t.retried # NoResult /\ env.maxAttempts >= 1) => (t.invocations >= 1 /\ t.invocations <= env.maxAttempts /\ (t.retried.kind = "err" <=> t.failures = t.invocations))
            /\ WasShortCircuited(t) => t.invocations = 0)
    /\ [][\A p \in Tasks : task'[p] # task[p] =>
            /\ RetryFails(p) <=> cb'.failureCount = cb.failureCount + 1
            /\ cb'.failureCount <= cb.failureCount + 1]_vars

\* C33 witness: one call made two remote attempts, both failed, and the
\* breaker has counted one failure.
C33_Witness == last.pc = "done" /\ env.maxAttempts = 2 /\ last.invocations = 2 /\ last.failures = 2 /\ last.retried.kind = "err" /\ cb.failureCount = 1 /\ cb.successCount = 0 /\ \A p \in Tasks : task[p].invocations = 0

\* C34 (the claim as stated): the fixed fallback assessment is never stored
\* under a risk_assessment key.
C34_FallbackNeverCached == \A id \in TxnIds : cache[id] # Null => JSONparse(cache[id]) # [transactionId |-> id, riskScore |-> 50, riskLevel |-> "MEDIUM", explanation |-> FallbackExplanation]

\* C35 (the claim as stated): when the scorer returns an assessment whose
\* riskScore is missing or not a number, processTransaction does not end
\* with status SUCCESS.
C35_NonNumericNotApproved == (last.pc = "done" /\ last.assessed.kind = "ok" /\ ~IsNumber(last.assessed.value.riskScore)) => last.transaction.status # "success"

\* ------------------------------------------------ configuration claims
\* Configuration versions that are ever active: the initial ones and
\* whatever a reload leaves.
ConfigVersions == Configs \cup {loadConfig(source).config : source \in ReloadSources}

\* C36 (the claim as stated): the rule score, the provider and the status of
\* a scored transaction all come from one and the same configuration
\* version, also when reloadConfig() ran while the call was suspended in the
\* scorer.
C36_OneConfigPerTransaction ==
    (last.pc = "done" /\ last.path \in {"scored", "rulesOnly"}) =>
        \E cfg \in ConfigVersions :
            /\ \E day \in Days : last.fraudAssessment = evaluateRiskFromRules(cfg, last.transaction, day)
            /\ last.transaction.provider = selectProvider(cfg, last.transaction.riskScore)
            /\ last.transaction.status = determineTransactionStatus(cfg, last.transaction.riskScore)

\* ------------------------------------------------ stored-record claims
\* processPayment has completed for this id and both records exist.
PaymentCompleted(id) == fn.op = "controller" /\ fn.current # id /\ fn.transactions[id] # Null /\ fn.store[id] # Null

\* C37 (the claim as stated): after processPayment has completed, the record
\* cached under transaction:<id> has the status, riskScore and provider of
\* the in-memory record.
C37_StoredRecordMatches ==
    \A id \in TxnIds :
        PaymentCompleted(id) =>
            LET cached == JSONparseTransaction(fn.store[id])
                inMemory == fn.transactions[id]
            IN cached.status = inMemory.status /\ cached.riskScore = inMemory.riskScore /\ cached.provider = inMemory.provider

\* ------------------------------------------------- retry-floor claims
\* C38 (the claim as stated): for every options value, execute invokes the
\* operation at least once, and when it fails it raises an error the
\* operation raised.
C38_RetryAlwaysTriesOnce ==
    (fn.op = "execute" /\ fn.pc \in {"returned", "failed"}) =>
        /\ fn.invocations >= 1
        /\ fn.pc = "failed" => (fn.outcome.kind = "err" /\ fn.outcome.error # NoError)

====
